---- MODULE Spec2Model ----
(***************************************************************************)
(* i18n_modern: the conditional expression evaluator                       *)
(* (src/i18n_modern/ast_evaluator.py) and the translation engine with its  *)
(* bounded cache (src/i18n_modern/i18n.py).                                *)
(*                                                                         *)
(* An expression text is a sequence of Python tokens; joined by blanks it  *)
(* is the text handed to ASTExpressionEvaluator.evaluate.                  *)
(***************************************************************************)
EXTENDS Integers, Sequences, FiniteSets, TLC

VARIABLES
    expression,   \* evaluator: the text given to evaluate
    outcome,      \* evaluator: "none" before the call, then what evaluate did
    evaluated,    \* evaluator: operands read by the outermost comparison chain
    pc,           \* the position of the caller in its specification
    parse_cache,  \* evaluator: the lru_cache of parse, least recently used first
    parsed,       \* evaluator: whether the last evaluate ran ast.parse
    locales,          \* engine: _locales
    default_locale,   \* engine: _default_locale
    cache,            \* engine: _previous_translations
    cache_max_size,   \* engine: _cache_max_size
    last,             \* the last call on the engine and what it returned
    requested,        \* how many calls the client of the specification has issued
    threads,          \* concurrent callers: each thread's position in get or in a load
    entry,            \* resolver: the translation handed to _get_translation
    params,           \* resolver: its values argument
    inherited,        \* resolver: its default_translation argument
    resolved          \* resolver: [exc, result, tested] once it returned

(***************************************************************************)
(* Literal values (types.py FormatValue): bool | float | int | str.        *)
(* A number is h/2 * 10^e, so that 1.5 is h = 3; e is 0 except for the     *)
(* integer literal of 310 digits.  A str is its sequence of characters.    *)
(***************************************************************************)
BoolV(b) == [cat |-> "bool", h |-> IF b THEN 2 ELSE 0, e |-> 0, s |-> <<>>]
IntV(n) == [cat |-> "int", h |-> 2 * n, e |-> 0, s |-> <<>>]
BigIntV(n, e10) == [cat |-> "int", h |-> 2 * n, e |-> e10, s |-> <<>>]
FloatV(halves) == [cat |-> "float", h |-> halves, e |-> 0, s |-> <<>>]
StrV(chars) == [cat |-> "str", h |-> 0, e |-> 0, s |-> chars]

\* The largest decimal exponent of a finite float (sys.float_info.max_10_exp).
DBL_MAX_10_EXP == 308

\* 10^309 written out: an int literal that float() cannot convert.
HugeInt == "1000000000000000000000000000000000000000000000000000000000000000000000000000000000000000000000000000000000000000000000000000000000000000000000000000000000000000000000000000000000000000000000000000000000000000000000000000000000000000000000000000000000000000000000000000000000000000000000000000000000000000000000"

ConstTokens == {"True", "False", "0", "1", "2", "1.0", "1.5", HugeInt, "'a'", "'b'"}
NameTokens == {"true", "false", "x", "default"}
CmpTokens == {"==", "!=", "<", "<=", ">", ">="}
BoolOpTokens == {"and", "or"}
SignTokens == {"+", "-"}

\* The value of a literal token, as ast.Constant.value holds it.
ConstValue(t) ==
    CASE t = "True" -> BoolV(TRUE)
      [] t = "False" -> BoolV(FALSE)
      [] t = "0" -> IntV(0)
      [] t = "1" -> IntV(1)
      [] t = "2" -> IntV(2)
      [] t = "1.0" -> FloatV(2)
      [] t = "1.5" -> FloatV(3)
      [] t = HugeInt -> BigIntV(1, 309)
      [] t = "'a'" -> StrV(<<"a">>)
      [] t = "'b'" -> StrV(<<"b">>)

CmpOp(t) ==
    CASE t = "==" -> "Eq"
      [] t = "!=" -> "NotEq"
      [] t = "<" -> "Lt"
      [] t = "<=" -> "LtE"
      [] t = ">" -> "Gt"
      [] t = ">=" -> "GtE"

IsStrToken(t) == t \in ConstTokens /\ ConstValue(t).cat = "str"

(***************************************************************************)
(* parse: ast.parse(expression, mode="eval") over the token alphabet       *)
(* above.  Python's grammar for these tokens:                              *)
(*   disjunction: conjunction ('or' conjunction)*                          *)
(*   conjunction: comparison ('and' comparison)*                           *)
(*   comparison:  sum (cmpop sum)*                                         *)
(*   sum:         factor (('+' | '-') factor)*                             *)
(*   factor:      ('+' | '-') factor | atom                                *)
(*   atom:        NAME | NUMBER | 'True' | 'False' | STRING+               *)
(* A parse step gives [ok, node, next]; next is the first unread token.    *)
(***************************************************************************)
NoneNode == [type |-> "None"]
ParseFail == [ok |-> FALSE, node |-> NoneNode, next |-> 0]
ParseOk(n, i) == [ok |-> TRUE, node |-> n, next |-> i]

\* Adjacent string literals are one Constant holding their concatenation.
RECURSIVE ParseStrings(_, _, _)
ParseStrings(toks, i, chars) ==
    IF i <= Len(toks) /\ IsStrToken(toks[i])
    THEN ParseStrings(toks, i + 1, chars \o ConstValue(toks[i]).s)
    ELSE ParseOk([type |-> "Constant", value |-> StrV(chars)], i)

\* "(" expression ")" is the expression's own node; "()" is the empty tuple.
RECURSIVE ParseDisjunction(_, _, _)
Parenthesised(toks, r) ==
    IF r.ok /\ r.next <= Len(toks) /\ toks[r.next] = ")" THEN ParseOk(r.node, r.next + 1)
    ELSE ParseFail

ParseAtom(toks, i) ==
    IF i > Len(toks) THEN ParseFail
    ELSE IF toks[i] = "(" /\ i < Len(toks) /\ toks[i + 1] = ")"
         THEN ParseOk([type |-> "Tuple"], i + 2)
    ELSE IF toks[i] = "(" THEN Parenthesised(toks, ParseDisjunction(toks, i + 1, <<>>))
    ELSE IF toks[i] \in NameTokens THEN ParseOk([type |-> "Name", id |-> toks[i]], i + 1)
    ELSE IF IsStrToken(toks[i]) THEN ParseStrings(toks, i, <<>>)
    ELSE IF toks[i] \in ConstTokens
         THEN ParseOk([type |-> "Constant", value |-> ConstValue(toks[i])], i + 1)
    ELSE ParseFail

IsAt(toks, i, tokens) == i <= Len(toks) /\ toks[i] \in tokens

\* primary: the atom or call r, and the calls that follow it.  The text has
\* no comma, so a call has no argument or one.
RECURSIVE ParseTrailers(_, _)
CallNode(func, args) == [type |-> "Call", func |-> func, args |-> args]
CallWith(toks, func, r) ==
    IF r.ok /\ IsAt(toks, r.next, {")"})
    THEN ParseTrailers(toks, ParseOk(CallNode(func, <<r.node>>), r.next + 1))
    ELSE ParseFail
ParseTrailers(toks, r) ==
    IF ~r.ok \/ ~IsAt(toks, r.next, {"("}) THEN r
    ELSE IF IsAt(toks, r.next + 1, {")"})
    THEN ParseTrailers(toks, ParseOk(CallNode(r.node, <<>>), r.next + 2))
    ELSE CallWith(toks, r.node, ParseDisjunction(toks, r.next + 1, <<>>))
ParsePrimary(toks, i) == ParseTrailers(toks, ParseAtom(toks, i))

\* factor: a sign applied to the factor r that follows it.
Signed(sign, r) ==
    IF r.ok
    THEN ParseOk([type |-> "UnaryOp", op |-> IF sign = "+" THEN "UAdd" ELSE "USub",
                  operand |-> r.node], r.next)
    ELSE ParseFail

RECURSIVE ParseFactor(_, _)
ParseFactor(toks, i) ==
    IF IsAt(toks, i, SignTokens) THEN Signed(toks[i], ParseFactor(toks, i + 1))
    ELSE ParsePrimary(toks, i)

\* sum: the factor r was read after the operator op (""  for the first one).
RECURSIVE ParseSum(_, _, _, _)
SumStep(toks, left, op, r) ==
    IF ~r.ok THEN ParseFail
    ELSE IF IsAt(toks, r.next, SignTokens)
    THEN ParseSum(toks, r.next + 1,
                  IF op = "" THEN r.node
                  ELSE [type |-> "BinOp", left |-> left, op |-> op, right |-> r.node],
                  IF toks[r.next] = "+" THEN "Add" ELSE "Sub")
    ELSE ParseOk(IF op = "" THEN r.node
                 ELSE [type |-> "BinOp", left |-> left, op |-> op, right |-> r.node],
                 r.next)
ParseSum(toks, i, left, op) == SumStep(toks, left, op, ParseFactor(toks, i))

\* comparison: the sum r was read; nodes holds the sums before it.
RECURSIVE ParseComparison(_, _, _, _)
ComparisonStep(toks, nodes, ops, r) ==
    IF ~r.ok THEN ParseFail
    ELSE IF IsAt(toks, r.next, CmpTokens)
    THEN ParseComparison(toks, r.next + 1, Append(nodes, r.node),
                         Append(ops, CmpOp(toks[r.next])))
    ELSE IF ops = <<>> THEN ParseOk(r.node, r.next)
    ELSE ParseOk([type |-> "Compare", left |-> Head(Append(nodes, r.node)), ops |-> ops,
                  comparators |-> Tail(Append(nodes, r.node))], r.next)
ParseComparison(toks, i, nodes, ops) ==
    ComparisonStep(toks, nodes, ops, ParseSum(toks, i, NoneNode, ""))

\* Operands joined by one boolean keyword are a single flat BoolOp.
BoolOpNode(op, values, next) ==
    IF Len(values) = 1 THEN ParseOk(values[1], next)
    ELSE ParseOk([type |-> "BoolOp", op |-> op, values |-> values], next)

RECURSIVE ParseConjunction(_, _, _)
ConjunctionStep(toks, values, r) ==
    IF ~r.ok THEN ParseFail
    ELSE IF IsAt(toks, r.next, {"and"})
    THEN ParseConjunction(toks, r.next + 1, Append(values, r.node))
    ELSE BoolOpNode("And", Append(values, r.node), r.next)
ParseConjunction(toks, i, values) ==
    ConjunctionStep(toks, values, ParseComparison(toks, i, <<>>, <<>>))

DisjunctionStep(toks, values, r) ==
    IF ~r.ok THEN ParseFail
    ELSE IF IsAt(toks, r.next, {"or"})
    THEN ParseDisjunction(toks, r.next + 1, Append(values, r.node))
    ELSE BoolOpNode("Or", Append(values, r.node), r.next)
ParseDisjunction(toks, i, values) ==
    DisjunctionStep(toks, values, ParseConjunction(toks, i, <<>>))

\* parse: the tree of the whole text, or None on a SyntaxError.
WholeText(toks, r) == IF r.ok /\ r.next = Len(toks) + 1 THEN r.node ELSE NoneNode
parse(toks) == WholeText(toks, ParseDisjunction(toks, 1, <<>>))

(***************************************************************************)
(* Evaluation.  A boolean-valued method gives "true" or "false", or the    *)
(* name of the exception it raises; _evaluate_operand gives [exc, val].    *)
(***************************************************************************)
Ord(c) == CASE c = "a" -> 97 [] c = "b" -> 98

\* -1, 0 or 1: how two strings compare, character by character.
RECURSIVE StrCmp(_, _)
StrCmp(a, b) ==
    IF a = <<>> /\ b = <<>> THEN 0
    ELSE IF a = <<>> THEN -1
    ELSE IF b = <<>> THEN 1
    ELSE IF Ord(Head(a)) < Ord(Head(b)) THEN -1
    ELSE IF Ord(Head(a)) > Ord(Head(b)) THEN 1
    ELSE StrCmp(Tail(a), Tail(b))

NumCmp(a, b) == IF a < b THEN -1 ELSE IF a > b THEN 1 ELSE 0

\* _get_operator: the operator module's function, applied to a comparison sign.
_get_operator(op_type, sign) ==
    CASE op_type = "Gt" -> sign > 0
      [] op_type = "GtE" -> sign >= 0
      [] op_type = "Lt" -> sign < 0
      [] op_type = "LtE" -> sign <= 0
      [] op_type = "Eq" -> sign = 0
      [] op_type = "NotEq" -> sign # 0

BoolOut(b) == IF b THEN "true" ELSE "false"
IsNumeric(v) == v.cat \in {"int", "float", "bool"}

\* float(v): an int beyond the float range raises OverflowError.
FloatOverflows(v) == v.cat = "int" /\ v.h # 0 /\ v.e > DBL_MAX_10_EXP

\* Python's == on two literal values: numbers by value, a str only with a str.
PyEq(left, right) ==
    IF left.cat = "str" /\ right.cat = "str" THEN left.s = right.s
    ELSE IF left.cat = "str" \/ right.cat = "str" THEN FALSE
    ELSE left.h = right.h /\ left.e = right.e

_compare_ordered(operator, left, right) ==
    IF left.cat = "str" /\ right.cat = "str"
    THEN BoolOut(_get_operator(operator, StrCmp(left.s, right.s)))
    ELSE IF IsNumeric(left) /\ IsNumeric(right)
    THEN IF FloatOverflows(left) \/ FloatOverflows(right) THEN "OverflowError"
         ELSE BoolOut(_get_operator(operator, NumCmp(left.h, right.h)))
    ELSE "ValueError"

\* A variant that treats == and != between a str and a number as an error.
ApplyComparisonStrict(operator, left, right) ==
    IF operator \in {"Eq", "NotEq"} /\ (left.cat = "str") # (right.cat = "str")
    THEN "ValueError"
    ELSE IF operator = "Eq" THEN BoolOut(PyEq(left, right))
    ELSE IF operator = "NotEq" THEN BoolOut(~PyEq(left, right))
    ELSE IF operator \in {"Gt", "GtE", "Lt", "LtE"}
    THEN _compare_ordered(operator, left, right)
    ELSE "ValueError"

_apply_comparison(operator, left, right) ==
    IF operator = "Eq" THEN BoolOut(PyEq(left, right))
    ELSE IF operator = "NotEq" THEN BoolOut(~PyEq(left, right))
    ELSE IF operator \in {"Gt", "GtE", "Lt", "LtE"}
    THEN _compare_ordered(operator, left, right)
    ELSE "ValueError"

Negate(v) == [cat |-> IF v.cat = "bool" THEN "int" ELSE v.cat,
              h |-> 0 - v.h, e |-> v.e, s |-> v.s]

\* The unary sign op applied to the evaluated operand.
UnaryResult(op, operand) ==
    IF operand.exc # "" THEN operand
    ELSE IF IsNumeric(operand.val)
    THEN [exc |-> "", val |-> IF op = "UAdd" THEN operand.val ELSE Negate(operand.val)]
    ELSE [exc |-> "ValueError", val |-> operand.val]

RECURSIVE _evaluate_operand(_)
_evaluate_operand(node) ==
    IF node.type = "Constant" THEN [exc |-> "", val |-> node.value]
    ELSE IF node.type = "UnaryOp" /\ node.op \in {"UAdd", "USub"}
    THEN UnaryResult(node.op, _evaluate_operand(node.operand))
    ELSE [exc |-> "ValueError", val |-> StrV(<<>>)]

\* The loop of _evaluate_compare from pair i on, as [out, evaluated]: n
\* counts the operands read so far.
RECURSIVE CompareLoop(_, _, _, _)
ComparePair(node, i, n, right, r) ==
    IF r = "true" THEN CompareLoop(node, i + 1, right, n + 1)
    ELSE [out |-> r, evaluated |-> n + 1]
\* A variant that forgets "left = right": every pair compares the first operand.
CompareRightKeepsLeft(node, i, left, n, right) ==
    IF right.exc # "" THEN [out |-> right.exc, evaluated |-> n + 1]
    ELSE ComparePair(node, i, n, left, _apply_comparison(node.ops[i], left, right.val))

CompareRight(node, i, left, n, right) ==
    IF right.exc # "" THEN [out |-> right.exc, evaluated |-> n + 1]
    ELSE ComparePair(node, i, n, right.val, _apply_comparison(node.ops[i], left, right.val))
CompareLoop(node, i, left, n) ==
    IF i > Len(node.ops) THEN [out |-> "true", evaluated |-> n]
    ELSE CompareRight(node, i, left, n, _evaluate_operand(node.comparators[i]))

CompareLeft(node, left) ==
    IF left.exc # "" THEN [out |-> left.exc, evaluated |-> 1]
    ELSE CompareLoop(node, 1, left.val, 1)
CompareTrace(node) == CompareLeft(node, _evaluate_operand(node.left))

_evaluate_compare(node) == CompareTrace(node).out

\* A variant that stops at the first operand that decides, as Python's own
\* "and" and "or" do: operands to its right are not evaluated.
Decides(op, r) == r \notin {"true", "false"} \/ (op = "Or") = (r = "true")
BoolOpShortCircuit(op, results) ==
    IF op \notin {"And", "Or"} THEN "ValueError"
    ELSE IF \E i \in 1..Len(results) : Decides(op, results[i])
    THEN results[CHOOSE i \in 1..Len(results) :
                     /\ Decides(op, results[i])
                     /\ \A j \in 1..(i - 1) : ~Decides(op, results[j])]
    ELSE BoolOut(op = "And")

\* all(results) / any(results); an operand that raised ends the call first.
BoolOpResult(op, results) ==
    IF \E i \in 1..Len(results) : results[i] \notin {"true", "false"}
    THEN results[CHOOSE i \in 1..Len(results) :
                    /\ results[i] \notin {"true", "false"}
                    /\ \A j \in 1..(i - 1) : results[j] \in {"true", "false"}]
    ELSE IF op = "And" THEN BoolOut(\A i \in 1..Len(results) : results[i] = "true")
    ELSE IF op = "Or" THEN BoolOut(\E i \in 1..Len(results) : results[i] = "true")
    ELSE "ValueError"

RECURSIVE _evaluate_node(_)

\* results = [cls._evaluate_node(value) for value in node.values]
_evaluate_bool_op(node) ==
    BoolOpResult(node.op, [i \in 1..Len(node.values) |-> _evaluate_node(node.values[i])])

\* A variant without the branch for boolean constants.
EvaluateNodeNoLiteral(node) ==
    IF node.type = "BoolOp" THEN _evaluate_bool_op(node)
    ELSE IF node.type = "Compare" THEN _evaluate_compare(node)
    ELSE "ValueError"

_evaluate_node(node) ==
    IF node.type = "BoolOp" THEN _evaluate_bool_op(node)
    ELSE IF node.type = "Compare" THEN _evaluate_compare(node)
    ELSE IF node.type = "Constant" /\ node.value.cat = "bool"
    THEN BoolOut(node.value.h # 0)
    ELSE "ValueError"

\* except (ValueError, TypeError): return False; anything else leaves the call.
FailClosed(r) == IF r \in {"ValueError", "TypeError"} THEN "false" ELSE r
EvaluateTree(tree) == IF tree.type = "None" THEN "false" ELSE FailClosed(_evaluate_node(tree))

\* ASTExpressionEvaluator.evaluate
evaluate(toks) == EvaluateTree(parse(toks))

(***************************************************************************)
(* functools.lru_cache(maxsize=512) around parse.  An entry is the text,   *)
(* and whether its tree is an Expression (valid) or None; the tree is      *)
(* parse(text).  A hit makes the entry the most recently used one; a miss  *)
(* runs ast.parse and, in a full cache, replaces the least recently used   *)
(* entry.                                                                  *)
(***************************************************************************)
maxsize == 512

InMemo(memo, toks) == \E i \in 1..Len(memo) : memo[i].expression = toks
MemoEntry(toks, tree) == [expression |-> toks, valid |-> tree.type # "None"]

\* A variant that keeps only the texts that parsed: a None is not stored.
RememberedIfValid(memo, toks) ==
    IF InMemo(memo, toks)
    THEN SelectSeq(memo, LAMBDA en : en.expression # toks)
         \o SelectSeq(memo, LAMBDA en : en.expression = toks)
    ELSE IF parse(toks).type = "None" THEN memo
    ELSE Append(IF Len(memo) >= maxsize THEN Tail(memo) ELSE memo,
                MemoEntry(toks, parse(toks)))

\* The cache after parse(toks).
Remembered(memo, toks) ==
    IF InMemo(memo, toks)
    THEN SelectSeq(memo, LAMBDA en : en.expression # toks)
         \o SelectSeq(memo, LAMBDA en : en.expression = toks)
    ELSE Append(IF Len(memo) >= maxsize THEN Tail(memo) ELSE memo,
                MemoEntry(toks, parse(toks)))

\* The operands the outermost comparison chain of the text read (0: no chain).
ChainOperandsRead(tree) == IF tree.type = "Compare" THEN CompareTrace(tree).evaluated ELSE 0
OperandsRead(toks) == ChainOperandsRead(parse(toks))

(***************************************************************************)
(* Locale trees (types.py LocaleValue): a str leaf holding a template, or  *)
(* a dict, kept as the sequence of its items in insertion order.  A dict   *)
(* key is a text: a path segment, "default", or a condition whose "[n]"    *)
(* tokens stand for parameters.  A template and a result string are        *)
(* sequences of text pieces.  A parameter set is the sequence of its       *)
(* (name, literal) items in the caller's order; <<>> is None.              *)
(***************************************************************************)
Leaf(t) == [tag |-> "str", text |-> t, items |-> <<>>]
Dict(its) == [tag |-> "dict", text |-> <<>>, items |-> its]
Item(key, value) == [k |-> key, v |-> value]
NoneValue == [tag |-> "none", text |-> <<>>, items |-> <<>>]

Placeholders == {"[n]", "[m]"}
ParamName(t) == CASE t = "[n]" -> "n" [] t = "[m]" -> "m"

HasKey(its, key) == \E i \in 1..Len(its) : its[i].k = key
Lookup(its, key) == its[CHOOSE i \in 1..Len(its) : its[i].k = key].v
HasParam(values, name) == \E i \in 1..Len(values) : values[i][1] = name
ParamOf(values, name) == values[CHOOSE i \in 1..Len(values) : values[i][1] = name][2]

\* str(value) of a parameter given by its literal.
ValueText(t) == IF IsStrToken(t) THEN ConstValue(t).s ELSE <<t>>

RECURSIVE Flatten(_)
Flatten(pieces) == IF pieces = <<>> THEN <<>> ELSE Head(pieces) \o Flatten(Tail(pieces))

\* helpers.format_value: each placeholder of the template that names a
\* parameter becomes the text of its value.
format_value(template, values) ==
    Flatten([i \in 1..Len(template) |->
        IF template[i] \in Placeholders /\ HasParam(values, ParamName(template[i]))
        THEN ValueText(ParamOf(values, ParamName(template[i])))
        ELSE <<template[i]>>])

\* helpers.eval_key: the condition with its parameters bound, evaluated.
Render(key, values) ==
    [i \in 1..Len(key) |->
        IF key[i] \in Placeholders /\ HasParam(values, ParamName(key[i]))
        THEN ParamOf(values, ParamName(key[i]))
        ELSE key[i]]
eval_key(key, values) == evaluate(Render(key, values))

\* helpers.get_deep_value: follow the segments of the dotted key.
RECURSIVE get_deep_value(_, _)
get_deep_value(tree, key) ==
    IF key = <<>> THEN tree
    ELSE IF tree.tag = "dict" /\ HasKey(tree.items, <<Head(key)>>)
    THEN get_deep_value(Lookup(tree.items, <<Head(key)>>), Tail(key))
    ELSE NoneValue

\* helpers.merge_deep: a new tree; a key of data replaces the value under
\* that key in place, two dicts merge recursively, a new key is appended.
RECURSIVE merge_deep(_, _)
RECURSIVE MergeItems(_, _)
MergeItems(its, data) ==
    IF data = <<>> THEN its
    ELSE LET d == Head(data)
             merged ==
                 IF HasKey(its, d.k)
                 THEN [i \in 1..Len(its) |->
                          IF its[i].k = d.k
                          THEN Item(d.k, IF its[i].v.tag = "dict" /\ d.v.tag = "dict"
                                         THEN merge_deep(its[i].v, d.v) ELSE d.v)
                          ELSE its[i]]
                 ELSE Append(its, d)
         IN  MergeItems(merged, Tail(data))
merge_deep(tree, data) ==
    IF tree.tag = "dict" THEN Dict(MergeItems(tree.items, data.items)) ELSE data

(***************************************************************************)
(* I18nModern._get_translation.  The result is [exc, result, tested]:      *)
(* tested lists the keys handed to eval_key, in order.                     *)
(***************************************************************************)
NoDefault == [set |-> FALSE, text |-> <<>>]

\* The text of a dict key: its tokens, a space between two of them.
KeyText(key) ==
    [i \in 1..(IF key = <<>> THEN 0 ELSE 2 * Len(key) - 1) |->
        IF i % 2 = 1 THEN key[(i + 1) \div 2] ELSE " "]
\* repr of a str: between apostrophes, or between double quotes when the
\* text has an apostrophe (a string literal); the pieces of the texts here
\* hold no double quote and no backslash.
ReprStr(pieces) ==
    IF \E i \in 1..Len(pieces) : IsStrToken(pieces[i])
    THEN <<"\"">> \o pieces \o <<"\"">>
    ELSE <<"'">> \o pieces \o <<"'">>
\* repr of a translation value: a str, or a dict in the order of its keys.
RECURSIVE ReprOf(_)
RECURSIVE ReprItems(_)
ReprItems(its) ==
    ReprStr(KeyText(Head(its).k)) \o <<": ">> \o ReprOf(Head(its).v)
    \o (IF Len(its) = 1 THEN <<>> ELSE <<", ">> \o ReprItems(Tail(its)))
ReprOf(v) ==
    IF v.tag = "str" THEN ReprStr(v.text)
    ELSE IF v.tag = "none" THEN <<"None">>
    ELSE IF v.items = <<>> THEN <<"{}">>
    ELSE <<"{">> \o ReprItems(v.items) \o <<"}">>
\* str(value): a str is its own text, a dict its repr.
StrOf(v) == IF v.tag = "str" THEN v.text ELSE ReprOf(v)

\* default_translation = str(translation["default"])
DefaultOf(v) == [set |-> TRUE, text |-> StrOf(v)]
Returned(r, keys) == [exc |-> "", result |-> r, tested |-> keys]
Raised(e, keys) == [exc |-> e, result |-> <<>>, tested |-> keys]
Tested(key, r) == [r EXCEPT !.tested = <<key>> \o r.tested]

RECURSIVE _get_translation(_, _, _)
RECURSIVE MatchLoop(_, _, _, _)

\* A variant that goes on to the next key when the chosen branch gave "".
MatchStepBacktracks(its, i, values, default_translation, c) ==
    IF c = "true" /\ _get_translation(its[i].v, values, NoDefault).result # <<>>
    THEN Tested(its[i].k, _get_translation(its[i].v, values, default_translation))
    ELSE IF c \in {"true", "false"}
    THEN Tested(its[i].k, MatchLoop(its, i + 1, values, default_translation))
    ELSE Raised(c, <<its[i].k>>)

\* One turn of "for key in translation.keys()": c is eval_key(key, values).
MatchStep(its, i, values, default_translation, c) ==
    IF c = "true"
    THEN Tested(its[i].k, _get_translation(its[i].v, values, default_translation))
    ELSE IF c = "false"
    THEN Tested(its[i].k, MatchLoop(its, i + 1, values, default_translation))
    ELSE Raised(c, <<its[i].k>>)

\* The loop from item i on; after it the default if there is one, else "".
MatchLoop(its, i, values, default_translation) ==
    IF i > Len(its)
    THEN IF default_translation.set /\ default_translation.text # <<>>
         THEN Returned(format_value(default_translation.text, values), <<>>)
         ELSE Returned(<<>>, <<>>)
    ELSE MatchStep(its, i, values, default_translation, eval_key(its[i].k, values))

\* A variant in which the default carried down wins over the entry's own.
GetTranslationOuterDefault(translation, values, default_translation) ==
    IF translation.tag # "str"
    THEN MatchLoop(translation.items, 1, values,
                   IF ~default_translation.set /\ translation.tag = "dict"
                      /\ HasKey(translation.items, <<"default">>)
                   THEN DefaultOf(Lookup(translation.items, <<"default">>))
                   ELSE default_translation)
    ELSE Returned(format_value(translation.text, values), <<>>)

_get_translation(translation, values, default_translation) ==
    IF translation.tag # "str"
    THEN MatchLoop(translation.items, 1, values,
                   IF translation.tag = "dict" /\ HasKey(translation.items, <<"default">>)
                   THEN DefaultOf(Lookup(translation.items, <<"default">>))
                   ELSE default_translation)
    ELSE Returned(format_value(translation.text, values), <<>>)

(***************************************************************************)
(* The engine (class I18nModern).  _locales maps a locale to its tree,     *)
(* NoneValue while the locale is not loaded; _previous_translations is the *)
(* dict of cached results, kept as its entries in insertion order.         *)
(***************************************************************************)
Locales == {"en", "fr"}

\* A parameter value as a dict key sees it: Python's == and hash make the
\* numbers True, 1 and 1.0 one key.
KeyValue(t) ==
    LET v == ConstValue(t)
    IN  IF v.cat = "str" THEN v ELSE [v EXCEPT !.cat = "num"]

\* A variant that sorts the items by name, as a line left in a comment of
\* get does: tuple(sorted(values.items())).
NameRank(name) == CASE name = "m" -> 1 [] name = "n" -> 2
ValuesTupleSorted(values) ==
    SortSeq([i \in 1..Len(values) |-> <<values[i][1], KeyValue(values[i][2])>>],
            LAMBDA a, b : NameRank(a[1]) < NameRank(b[1]))

\* values_tuple = tuple(values.items()) if values else None
ValuesTuple(values) == [i \in 1..Len(values) |-> <<values[i][1], KeyValue(values[i][2])>>]
CacheKey(key, locale, values) == [key |-> key, locale |-> locale, values |-> ValuesTuple(values)]

InCache(c, cache_key) == \E i \in 1..Len(c) : c[i].key = cache_key
Cached(c, cache_key) == c[CHOOSE i \in 1..Len(c) : c[i].key = cache_key].val

\* A variant that removes the first half, as the comment beside the code says.
EvictLimitHalf(max_size) == IF max_size > 4 THEN max_size \div 2 ELSE 1

\* limit = self._cache_max_size // 4 if self._cache_max_size > 4 else 1
EvictLimit(max_size) == IF max_size > 4 THEN max_size \div 4 ELSE 1

\* A variant that evicts only above capacity: > in place of >=.
EvictedLate(c, max_size) ==
    IF Len(c) > max_size
    THEN IF EvictLimit(max_size) >= Len(c) THEN <<>>
         ELSE SubSeq(c, EvictLimit(max_size) + 1, Len(c))
    ELSE c

\* The cache after the eviction step of a miss: at capacity, the first
\* limit keys are deleted.
Evicted(c, max_size) ==
    IF Len(c) >= max_size
    THEN IF EvictLimit(max_size) >= Len(c) THEN <<>>
         ELSE SubSeq(c, EvictLimit(max_size) + 1, Len(c))
    ELSE c

\* Lines 213-221 of get: the lookup and the resolution, [exc, result, tested].
ResolveValue(translation, values) ==
    IF translation.tag = "none" THEN Raised("KeyError", <<>>)
    ELSE _get_translation(translation, values, NoDefault)
Resolve(store, locale, key, values) ==
    IF locale \notin Locales \/ store[locale].tag = "none" THEN Raised("KeyError", <<>>)
    ELSE ResolveValue(get_deep_value(store[locale], key), values)

\* Variants of the invalidation: the whole cache goes; nothing goes.
InvalidatedAll(c, locale_identify) == <<>>
InvalidatedNone(c, locale_identify) == c

\* The cache of _update_locales' last loop: the entries of the locale go.
Invalidated(c, locale_identify) == SelectSeq(c, LAMBDA en : en.key.locale # locale_identify)

\* _update_locales: the merged tree of the locale, based on the locale's own
\* tree or, for a new locale, on the default locale's.
UpdatedLocales(store, default, locale_identify, data) ==
    LET base == IF store[locale_identify].tag # "none" THEN store[locale_identify]
                ELSE store[default]
    IN  [store EXCEPT ![locale_identify] = merge_deep(base, data)]

(***************************************************************************)
(* Inputs of the engine's specifications.                                  *)
(***************************************************************************)
Capacities == {1, 2}

DataA ==
    Dict(<<Item(<<"msg">>,
                Dict(<<Item(<<"[n]", ">", "1">>, Leaf(<<"many ", "[n]">>)),
                       Item(<<"[n]", "==", "1">>, Leaf(<<"one">>)),
                       Item(<<"default">>, Leaf(<<"none">>))>>)),
           Item(<<"menu">>, Dict(<<Item(<<"open">>, Leaf(<<"Open">>))>>))>>)
DataB == Dict(<<Item(<<"msg">>, Leaf(<<"item ", "[n]">>))>>)
Datas == {DataA, DataB}

\* The files of load_from_file: what each path holds.
Files == {"a.json", "b.json", "missing.json"}
FileExists(f) == f # "missing.json"
FileData(f) == IF f = "a.json" THEN DataA ELSE DataB
\* "" when the file loads, else the exception of load_from_file.
FileError(f) == IF ~FileExists(f) THEN "FileNotFoundError" ELSE ""

\* The batches of load_many, and the orders its two tasks can complete in.
Batches == {<<<<"b.json", "en">>, <<"b.json", "fr">>>>,
            <<<<"b.json", "en">>, <<"missing.json", "fr">>>>,
            <<<<"a.json", "en">>, <<"b.json", "fr">>>>,
            <<<<"a.json", "en">>, <<"b.json", "en">>>>}
Orders == {<<1, 2>>, <<2, 1>>}

Keys == {<<"msg">>, <<"menu", "open">>, <<"nope">>}
GetLocales == {"", "fr"}
ParamSets == {<<>>, <<<<"n", "1">>>>, <<<<"n", HugeInt>>>>}

(***************************************************************************)
(* The engine's operations.  last records the call: its arguments, the     *)
(* string it returned, whether the cache served it, the exception it       *)
(* caught or raised ("" for none), the number of cache entries it deleted  *)
(* and the locales it updated.  For load_many, key holds the batch of      *)
(* (file, locale) pairs.                                                   *)
(***************************************************************************)
Call(op, key, locale, values, result, hit, exc, dropped, loaded) ==
    [op |-> op, key |-> key, locale |-> locale, values |-> values,
     result |-> result, hit |-> hit, exc |-> exc, dropped |-> dropped,
     loaded |-> loaded]

\* A variant that caches the fallback of a failed resolution.
GetMissCachesFallback(key, locale, values, cache_key, r) ==
    /\ cache' = Append(Evicted(cache, cache_max_size),
                       [key |-> cache_key, val |-> IF r.exc # "" THEN key ELSE r.result])
    /\ last' = Call("get", key, locale, values, IF r.exc # "" THEN key ELSE r.result,
                    FALSE, r.exc, Len(cache) - Len(Evicted(cache, cache_max_size)), {})

\* get after the cache lookup missed: r is what lines 213-221 gave.
GetMiss(key, locale, values, cache_key, r) ==
    IF r.exc # ""
    THEN /\ last' = Call("get", key, locale, values, key, FALSE, r.exc, 0, {})
         /\ cache' = cache
    ELSE /\ cache' = Append(Evicted(cache, cache_max_size),
                            [key |-> cache_key, val |-> r.result])
         /\ last' = Call("get", key, locale, values, r.result, FALSE, "",
                         Len(cache) - Len(Evicted(cache, cache_max_size)), {})

GetAt(key, locale, values, loc) ==
    IF InCache(cache, CacheKey(key, loc, values))
    THEN /\ last' = Call("get", key, locale, values,
                         Cached(cache, CacheKey(key, loc, values)), TRUE, "", 0, {})
         /\ cache' = cache
    ELSE GetMiss(key, locale, values, CacheKey(key, loc, values),
                 Resolve(locales, loc, key, values))

\* I18nModern.get
get(key, locale, values) ==
    /\ GetAt(key, locale, values, IF locale = "" THEN default_locale ELSE locale)
    /\ UNCHANGED <<locales, default_locale, cache_max_size>>

\* I18nModern._update_locales
_update_locales(locale_identify, data) ==
    /\ locales' = UpdatedLocales(locales, default_locale, locale_identify, data)
    /\ cache' = Invalidated(cache, locale_identify)

\* I18nModern.load_from_value
load_from_value(data, locale_identify) ==
    /\ _update_locales(locale_identify, data)
    /\ last' = Call("load_from_value", <<>>, locale_identify, <<>>, <<>>, FALSE, "",
                    Len(cache) - Len(Invalidated(cache, locale_identify)),
                    {locale_identify})
    /\ UNCHANGED <<default_locale, cache_max_size>>

\* I18nModern.load_from_file
load_from_file(file_path, locale_identify) ==
    /\ IF FileError(file_path) # ""
       THEN /\ UNCHANGED <<locales, cache>>
            /\ last' = Call("load_from_file", <<>>, locale_identify, <<>>, <<>>, FALSE,
                            FileError(file_path), 0, {})
       ELSE /\ _update_locales(locale_identify, FileData(file_path))
            /\ last' = Call("load_from_file", <<>>, locale_identify, <<>>, <<>>, FALSE, "",
                            Len(cache) - Len(Invalidated(cache, locale_identify)),
                            {locale_identify})
    /\ UNCHANGED <<default_locale, cache_max_size>>

\* The merge loop of load_many: _update_locales for each result in turn.
RECURSIVE MergeResults(_, _, _, _)
MergeResults(store, c, default, results) ==
    IF results = <<>> THEN [store |-> store, cache |-> c]
    ELSE MergeResults(UpdatedLocales(store, default, Head(results)[2],
                                     FileData(Head(results)[1])),
                      Invalidated(c, Head(results)[2]), default, Tail(results))

\* A variant that merges each result as its task completes, so that the
\* files that loaded are in the store when a failure is raised.
LoadManyMergesLoaded(files, order) ==
    /\ LET merged == MergeResults(locales, cache, default_locale,
                                  SelectSeq([i \in 1..Len(order) |-> files[order[i]]],
                                            LAMBDA f : FileError(f[1]) = ""))
       IN  /\ locales' = merged.store
           /\ cache' = merged.cache
           /\ last' = Call("load_many", files, "", <<>>, <<>>, FALSE,
                           IF \E i \in 1..Len(files) : FileError(files[i][1]) # ""
                           THEN "FileNotFoundError" ELSE "",
                           Len(cache) - Len(merged.cache),
                           {files[i][2] : i \in {j \in 1..Len(files) :
                                                    FileError(files[j][1]) = ""}})
    /\ UNCHANGED <<default_locale, cache_max_size>>

\* I18nModern.load_many: files are (file_path, locale) pairs; order lists the
\* tasks as they complete.  A task that fails raises out of the with block,
\* before any result is merged.
load_many(files, order) ==
    /\ IF \E i \in 1..Len(files) : FileError(files[i][1]) # ""
       THEN /\ UNCHANGED <<locales, cache>>
            /\ last' = Call("load_many", files, "", <<>>, <<>>, FALSE,
                            FileError(files[CHOOSE i \in 1..Len(files) :
                                FileError(files[i][1]) # ""][1]), 0, {})
       ELSE LET merged == MergeResults(locales, cache, default_locale,
                                       [i \in 1..Len(order) |-> files[order[i]]])
            IN  /\ locales' = merged.store
                /\ cache' = merged.cache
                /\ last' = Call("load_many", files, "", <<>>, <<>>, FALSE, "",
                                Len(cache) - Len(merged.cache),
                                {files[i][2] : i \in 1..Len(files)})
    /\ UNCHANGED <<default_locale, cache_max_size>>

\* The default_locale setter
set_default_locale(value) ==
    /\ default_locale' = value
    /\ last' = Call("set_default_locale", <<>>, value, <<>>, <<>>, FALSE, "", 0, {})
    /\ UNCHANGED <<locales, cache, cache_max_size>>

\* The locales argument of __init__: None, a dict, or the path of a file.
NoSource == [kind |-> "none", data |-> NoneValue, path |-> ""]
ValueSource(data) == [kind |-> "dict", data |-> data, path |-> ""]
FileSource(f) == [kind |-> "path", data |-> NoneValue, path |-> f]
Sources == {NoSource} \cup {ValueSource(d) : d \in Datas} \cup {FileSource(f) : f \in Files}
CtorSizes == {-1, 0, 1, 2}

\* What __init__ loads: the dict, or the file's data.
SourceData(source) == IF source.kind = "path" THEN FileData(source.path) ELSE source.data
SourceError(source) == IF source.kind = "path" THEN FileError(source.path) ELSE ""

\* A variant that validates cache_max_size after loading the locales.
InitValidatesLast(default, source, size) ==
    /\ default_locale' = default
    /\ cache_max_size' = size
    /\ cache' = <<>>
    /\ IF SourceError(source) # ""
       THEN /\ locales' = locales
            /\ last' = Call("init", <<>>, default, <<>>, <<>>, FALSE, SourceError(source), 0, {})
       ELSE /\ locales' = IF source.kind = "none" THEN locales
                          ELSE UpdatedLocales(locales, default, default, SourceData(source))
            /\ last' = Call("init", <<>>, default, <<>>, <<>>, FALSE,
                            IF size <= 0 THEN "ValueError" ELSE "", 0,
                            IF source.kind = "none" THEN {} ELSE {default})

\* I18nModern.__init__: the fields are set, a non-positive cache_max_size
\* raises ValueError, then the locales argument is loaded for default_locale.
\* last.exc is the exception that left the constructor, "" for none.
__init__(default, source, size) ==
    /\ default_locale' = default
    /\ cache_max_size' = size
    /\ cache' = <<>>
    /\ IF size <= 0
       THEN /\ locales' = locales
            /\ last' = Call("init", <<>>, default, <<>>, <<>>, FALSE, "ValueError", 0, {})
       ELSE IF SourceError(source) # ""
       THEN /\ locales' = locales
            /\ last' = Call("init", <<>>, default, <<>>, <<>>, FALSE, SourceError(source), 0, {})
       ELSE /\ locales' = IF source.kind = "none" THEN locales
                          ELSE UpdatedLocales(locales, default, default, SourceData(source))
            /\ last' = Call("init", <<>>, default, <<>>, <<>>, FALSE, "", 0,
                            IF source.kind = "none" THEN {} ELSE {default})

(***************************************************************************)
(* Inputs of the evaluator's and the resolver's specifications.            *)
(***************************************************************************)
MaxLen == 3
MaxPairs == 2
MaxItems == 2
MaxOperands == 3
MaxOthers == 513
MaxCalls == 2

EvalAlphabet ==
    {"True", "False", "true", "false", "1", "1.0", HugeInt, "'a'", "'b'",
     "==", "!=", "<", "and", "or", "-"}
EvalTexts(len) == UNION {[1..n -> EvalAlphabet] : n \in 1..len}

ChainOperands == {"1", "2", "'a'", "x", HugeInt}
ChainOps == {"<", ">", "==", "!="}
Interleave(operands, ops) ==
    [i \in 1..(2 * Len(ops) + 1) |->
        IF i % 2 = 1 THEN operands[(i + 1) \div 2] ELSE ops[i \div 2]]
ChainTexts(pairs) ==
    UNION {{Interleave(os, ps) : os \in [1..(k + 1) -> ChainOperands],
                                 ps \in [1..k -> ChainOps]} : k \in 1..pairs}

\* Ordering comparisons between two literals; a text literal may be written
\* as two adjacent string tokens.
OrderOps == {"<", "<=", ">", ">="}
OrderOperands == {<<t>> : t \in ConstTokens} \cup {<<"'a'", "'a'">>, <<"'a'", "'b'">>}
OrderTexts == {a \o <<op>> \o b : a \in OrderOperands, op \in OrderOps, b \in OrderOperands}

\* Boolean combinations: at most n operands, each a boolean literal or a
\* comparison, joined by "and" and "or"; a combination of two operands in
\* parentheses may stand for the first or the last operand.
BoolOperands ==
    {<<"True">>, <<"False">>, <<"1", "<", "2">>, <<"2", "<", "1">>, <<"'a'", "<", "1">>,
     <<"'a'", "==", "1">>}
Joined(operands, ops) ==
    Flatten([i \in 1..(2 * Len(ops) + 1) |->
                IF i % 2 = 1 THEN operands[(i + 1) \div 2] ELSE <<ops[i \div 2]>>])
FlatBoolTexts(k) ==
    {Joined(os, ps) : os \in [1..k -> BoolOperands], ps \in [1..(k - 1) -> BoolOpTokens]}
Grouped(t) == <<"(">> \o t \o <<")">>
BoolTexts(n) ==
    UNION {FlatBoolTexts(k) : k \in 2..n}
    \cup {Grouped(g) \o <<p>> \o o : g \in FlatBoolTexts(2), p \in BoolOpTokens, o \in BoolOperands}
    \cup {o \o <<p>> \o Grouped(g) : g \in FlatBoolTexts(2), p \in BoolOpTokens, o \in BoolOperands}

\* The texts of the parse-memo client: one that does not parse, "1 +", and
\* MaxOthers distinct comparisons of two literals.
Unparsable == <<"1", "+">>
OtherOperands == <<"0", "1", "2", "1.0", "1.5", "True", "False", "'a'", "'b'", HugeInt>>
OtherOps == <<"==", "!=", "<", "<=", ">", ">=">>
OtherText(k) ==
    <<OtherOperands[((k - 1) % 10) + 1], OtherOps[(((k - 1) \div 10) % 6) + 1],
      OtherOperands[(((k - 1) \div 60) % 10) + 1]>>

\* Translation entries: leaves, and dicts of at most MaxItems items whose
\* values are leaves or smaller dicts of leaves; a "default" holds a text.
DictKeys == {<<"[n]", ">", "1">>, <<"True">>, <<"default">>}
LeafEntries == {Leaf(<<"A">>), Leaf(<<"n=", "[n]">>)}
KeySeqs(n) ==
    {ks \in UNION {[1..k -> DictKeys] : k \in 0..n} :
        \A i, j \in 1..Len(ks) : i # j => ks[i] # ks[j]}
DictsOver(subs, n) ==
    UNION {{Dict([i \in 1..Len(ks) |-> Item(ks[i], vs[i])]) :
               vs \in {v \in [1..Len(ks) -> subs] :
                          \A i \in 1..Len(ks) : ks[i] = <<"default">> => v[i].tag = "str"}} :
           ks \in KeySeqs(n)}
Entries(n) == LeafEntries \cup DictsOver(LeafEntries \cup DictsOver(LeafEntries, n - 1), n)
\* Entries whose "default" is a dict: its str() is the default text.
DictDefaultEntries ==
    {Dict(<<Item(<<"default">>,
                 Dict(<<Item(<<"[n]", ">", "1">>, Leaf(<<"n=", "[n]">>))>>))>>),
     Dict(<<Item(<<"[n]", ">", "1">>, Leaf(<<"A">>)), Item(<<"default">>, Dict(<<>>))>>),
     Dict(<<Item(<<"True">>, Dict(<<Item(<<"[n]", ">", "1">>, Leaf(<<"A">>))>>)),
            Item(<<"default">>, Dict(<<Item(<<"'a'">>, Leaf(<<"A">>))>>))>>)}
ResolveParams == {<<>>, <<<<"n", "1">>>>, <<<<"n", "2">>>>}
InheritedDefaults == {NoDefault, DefaultOf(Leaf(<<"outer ", "[n]">>))}

\* The parameter sets of the cache-key client: one content in two insertion
\* orders, and the values True, 1, 1.0 and 'a' of the four literal types.
KeyParamSets ==
    {<<<<"n", "1">>>>, <<<<"n", "True">>>>, <<<<"n", "1.0">>>>, <<<<"n", "'a'">>>>,
     <<<<"n", "1">>, <<"m", "2">>>>, <<<<"m", "2">>, <<"n", "1">>>>}
KeyCapacities == {2, 4}

\* The calls of the eviction client, in the order it first issues them.
EvictCalls ==
    <<<<<<"msg">>, <<>>>>, <<<<"msg">>, <<<<"n", "0">>>>>>, <<<<"msg">>, <<<<"n", "1">>>>>>,
      <<<<"msg">>, <<<<"n", "2">>>>>>, <<<<"msg">>, <<<<"n", "1.5">>>>>>,
      <<<<"menu", "open">>, <<>>>>, <<<<"menu", "open">>, <<<<"n", "0">>>>>>,
      <<<<"menu", "open">>, <<<<"n", "1">>>>>>, <<<<"menu", "open">>, <<<<"n", "2">>>>>>,
      <<<<"menu", "open">>, <<<<"n", "1.5">>>>>>>>
EvictCapacities == {1, 4, 5, 8}
Revisit == 2

(***************************************************************************)
(* Initial states and actions.                                             *)
(***************************************************************************)
evalVars == <<expression, outcome, evaluated, pc, parse_cache, parsed>>
engineVars == <<locales, default_locale, cache, cache_max_size, last, requested, threads>>
resolverVars == <<entry, params, inherited, resolved>>
vars == <<expression, outcome, evaluated, pc, parse_cache, parsed,
          locales, default_locale, cache, cache_max_size, last, requested,
          threads, entry, params, inherited, resolved>>

(***************************************************************************)
(* Concurrent callers.  get and _update_locales take no lock, so threads   *)
(* interleave between their dict operations; each action below is one such *)
(* operation, or a run of statements that touch no shared dict.  A thread  *)
(* record holds the call (key, values; locale for a load), the resolved    *)
(* string, the keys still to delete, what the call returned, the exception *)
(* it caught or raised, and the number of calls the thread has made.       *)
(***************************************************************************)
Getters == {"t1", "t2"}
Loaders == {"loader"}
Threads == Getters \cup Loaders
ThreadKeys == {<<"msg">>}
ThreadParams == {<<<<"n", "1">>>>, <<<<"n", "2">>>>}
ThreadCapacities == {1, 2}

IdleThread ==
    [pc |-> "idle", key |-> <<>>, values |-> <<>>, locale |-> "", result |-> <<>>,
     remove |-> <<>>, ret |-> <<>>, exc |-> "", calls |-> 0]
NoThreads == [t \in Threads |-> IdleThread]

\* The thread's call is over: it returned ret, or exc went to its caller.
Finished(th, ret, exc) ==
    [th EXCEPT !.pc = "idle", !.ret = ret, !.exc = exc, !.remove = <<>>,
               !.calls = th.calls + 1]

ThreadCacheKey(th) == CacheKey(th.key, th.locale, th.values)
Without(c, cache_key) == SelectSeq(c, LAMBDA en : en.key # cache_key)
\* self._previous_translations[cache_key] = result
Stored(c, cache_key, result) ==
    IF InCache(c, cache_key)
    THEN [i \in 1..Len(c) |-> IF c[i].key = cache_key
                               THEN [key |-> cache_key, val |-> result] ELSE c[i]]
    ELSE Append(c, [key |-> cache_key, val |-> result])
\* list(self._previous_translations.keys())
CacheKeys(c) == [i \in 1..Len(c) |-> c[i].key]

\* get, lines 204-210: the call starts, the key is built and looked up.
GetEnter(t) ==
    /\ UNCHANGED <<locales, default_locale, cache_max_size, last, requested,
                   evalVars, resolverVars>>
    /\ threads[t].pc = "idle"
    /\ threads[t].calls < MaxCalls
    /\ \E key \in ThreadKeys, values \in ThreadParams :
          threads' = [threads EXCEPT ![t] =
              [@ EXCEPT !.key = key, !.values = values, !.locale = default_locale,
                        !.result = <<>>, !.ret = <<>>, !.exc = "",
                        !.pc = IF InCache(cache, CacheKey(key, default_locale, values))
                               THEN "read" ELSE "resolve"]]
    /\ UNCHANGED cache

\* get, line 211: the entry found at line 210 is read and returned; if it
\* is gone, the KeyError is caught at line 234 and the key is returned.
GetReturnCached(t) ==
    /\ UNCHANGED <<locales, default_locale, cache_max_size, last, requested,
                   evalVars, resolverVars>>
    /\ threads[t].pc = "read"
    /\ threads' = [threads EXCEPT ![t] =
           IF InCache(cache, ThreadCacheKey(@))
           THEN Finished(@, Cached(cache, ThreadCacheKey(@)), "")
           ELSE Finished(@, @.key, "KeyError")]
    /\ UNCHANGED cache

\* get, lines 213-221: the resolution; r is its outcome.
GetResolved(t, r) ==
    /\ threads' = [threads EXCEPT ![t] =
           IF r.exc # "" THEN Finished(@, @.key, r.exc)
           ELSE [@ EXCEPT !.result = r.result, !.pc = "evict"]]
    /\ UNCHANGED cache
GetResolve(t) ==
    /\ UNCHANGED <<locales, default_locale, cache_max_size, last, requested,
                   evalVars, resolverVars>>
    /\ threads[t].pc = "resolve"
    /\ GetResolved(t, Resolve(locales, threads[t].locale, threads[t].key, threads[t].values))

\* get, line 224: the length of the cache is compared with the capacity.
GetLength(t) ==
    /\ UNCHANGED <<locales, default_locale, cache_max_size, last, requested,
                   evalVars, resolverVars>>
    /\ threads[t].pc = "evict"
    /\ threads' = [threads EXCEPT ![t] =
           [@ EXCEPT !.pc = IF Len(cache) >= cache_max_size THEN "list" ELSE "insert"]]
    /\ UNCHANGED cache

\* get, lines 226-227: the first limit keys of the cache as it is now are
\* listed; with none, the loop of line 228 has nothing to delete.
FirstKeys(c, limit) == SubSeq(CacheKeys(c), 1, IF limit < Len(c) THEN limit ELSE Len(c))
GetLimit(t) ==
    /\ UNCHANGED <<locales, default_locale, cache_max_size, last, requested,
                   evalVars, resolverVars>>
    /\ threads[t].pc = "list"
    /\ threads' = [threads EXCEPT ![t] =
           [@ EXCEPT !.remove = FirstKeys(cache, EvictLimit(cache_max_size)),
                     !.pc = IF cache = <<>> THEN "insert" ELSE "del"]]
    /\ UNCHANGED cache

\* get, lines 228-229: one del of the loop; a key that is gone raises
\* KeyError, which line 234 catches.
GetDelete(t) ==
    /\ UNCHANGED <<locales, default_locale, cache_max_size, last, requested,
                   evalVars, resolverVars>>
    /\ threads[t].pc = "del"
    /\ IF InCache(cache, Head(threads[t].remove))
       THEN /\ cache' = Without(cache, Head(threads[t].remove))
            /\ threads' = [threads EXCEPT ![t] =
                   [@ EXCEPT !.remove = Tail(@),
                             !.pc = IF Tail(threads[t].remove) = <<>>
                                    THEN "insert" ELSE "del"]]
       ELSE /\ cache' = cache
            /\ threads' = [threads EXCEPT ![t] = Finished(@, @.key, "KeyError")]

\* get, lines 231-232
GetInsert(t) ==
    /\ UNCHANGED <<locales, default_locale, cache_max_size, last, requested,
                   evalVars, resolverVars>>
    /\ threads[t].pc = "insert"
    /\ cache' = Stored(cache, ThreadCacheKey(threads[t]), threads[t].result)
    /\ threads' = [threads EXCEPT ![t] = Finished(@, @.result, "")]

\* _update_locales, lines 116-122: the merge into the locale's tree.
LoadEnter(t) ==
    /\ UNCHANGED <<default_locale, cache_max_size, last, requested, evalVars, resolverVars>>
    /\ threads[t].pc = "idle"
    /\ threads[t].calls < MaxCalls
    /\ locales' = UpdatedLocales(locales, default_locale, default_locale, DataB)
    /\ threads' = [threads EXCEPT ![t] =
           [@ EXCEPT !.locale = default_locale, !.ret = <<>>, !.exc = "", !.pc = "list"]]
    /\ UNCHANGED cache

\* _update_locales, line 124: the keys of the cache as it is now are listed;
\* the loop visits those of the locale.
LoadList(t) ==
    /\ UNCHANGED <<default_locale, cache_max_size, last, requested, evalVars, resolverVars>>
    /\ threads[t].pc = "list"
    /\ threads' = [threads EXCEPT ![t] =
           [@ EXCEPT !.remove = SelectSeq(CacheKeys(cache),
                                          LAMBDA k : k.locale = threads[t].locale),
                     !.pc = "del"]]
    /\ UNCHANGED <<cache, locales>>

\* _update_locales, lines 125-126: one del of the loop, or its end; a key
\* that is gone raises KeyError out of the load.
LoadDelete(t) ==
    /\ UNCHANGED <<default_locale, cache_max_size, last, requested, evalVars, resolverVars>>
    /\ threads[t].pc = "del"
    /\ UNCHANGED locales
    /\ IF threads[t].remove = <<>>
       THEN /\ cache' = cache
            /\ threads' = [threads EXCEPT ![t] = Finished(@, <<>>, "")]
       ELSE IF InCache(cache, Head(threads[t].remove))
       THEN /\ cache' = Without(cache, Head(threads[t].remove))
            /\ threads' = [threads EXCEPT ![t] = [@ EXCEPT !.remove = Tail(@)]]
       ELSE /\ cache' = cache
            /\ threads' = [threads EXCEPT ![t] = Finished(@, <<>>, "KeyError")]

\* No expression under evaluation.
EvalIdle ==
    /\ expression = <<>>
    /\ outcome = "none"
    /\ evaluated = 0
    /\ pc = "idle"
    /\ parse_cache = <<>>
    /\ parsed = FALSE

\* No translation under resolution.
ResolverIdle ==
    /\ entry = NoneValue
    /\ params = <<>>
    /\ inherited = NoDefault
    /\ resolved = Returned(<<>>, <<>>)

\* I18nModern.__init__ with no locales argument.
EngineInit(defaults, sizes) ==
    /\ locales = [l \in Locales |-> NoneValue]
    /\ default_locale \in defaults
    /\ cache = <<>>
    /\ cache_max_size \in sizes
    /\ last = Call("init", <<>>, "", <<>>, <<>>, FALSE, "", 0, {})
    /\ requested = 0
    /\ threads = NoThreads

\* I18nModern.__init__ with locales = data: load_from_value(data, default_locale).
EngineInitWith(defaults, sizes, data) ==
    /\ default_locale \in defaults
    /\ locales = UpdatedLocales([l \in Locales |-> NoneValue], default_locale,
                                default_locale, data)
    /\ cache = <<>>
    /\ cache_max_size \in sizes
    /\ last = Call("init", <<>>, "", <<>>, <<>>, FALSE, "", 0, {})
    /\ requested = 0
    /\ threads = NoThreads

EvalStart(texts) ==
    /\ expression \in texts
    /\ outcome = "none"
    /\ evaluated = 0
    /\ pc = "start"
    /\ parse_cache = <<>>
    /\ parsed = FALSE

\* evaluate(toks) is called and returns or raises.
Evaluated(toks) ==
    /\ outcome' = evaluate(toks)
    /\ evaluated' = OperandsRead(toks)
    /\ parse_cache' = Remembered(parse_cache, toks)
    /\ parsed' = ~InMemo(parse_cache, toks)

Evaluate ==
    /\ pc = "start"
    /\ Evaluated(expression)
    /\ pc' = "done"
    /\ UNCHANGED <<expression, engineVars, resolverVars>>

\* _get_translation(entry, params, inherited) is called and returns.
ResolveEntry ==
    /\ pc = "resolve"
    /\ resolved' = _get_translation(entry, params, inherited)
    /\ pc' = "resolved"
    /\ UNCHANGED <<expression, outcome, evaluated, parse_cache, parsed,
                   entry, params, inherited, engineVars>>

GetAny == \E key \in Keys, locale \in GetLocales, values \in ParamSets :
              get(key, locale, values) /\ UNCHANGED <<evalVars, resolverVars, requested, threads>>
LoadValue == \E data \in Datas, l \in Locales :
                 load_from_value(data, l) /\ UNCHANGED <<evalVars, resolverVars, requested, threads>>
LoadFile == \E f \in Files, l \in Locales :
                load_from_file(f, l) /\ UNCHANGED <<evalVars, resolverVars, requested, threads>>
LoadMany == \E files \in Batches, order \in Orders :
                load_many(files, order) /\ UNCHANGED <<evalVars, resolverVars, requested, threads>>
SetDefault == \E l \in Locales :
                  set_default_locale(l) /\ UNCHANGED <<evalVars, resolverVars, requested, threads>>

\* The parse-memo client: evaluate("1 +"), then evaluate on other texts, all
\* distinct, then evaluate("1 +") again.
EvaluateFirst ==
    /\ pc = "first"
    /\ expression' = Unparsable
    /\ Evaluated(Unparsable)
    /\ pc' = "others"
    /\ UNCHANGED <<locales, default_locale, cache, cache_max_size, last, requested,
                   threads, resolverVars>>
EvaluateOther ==
    /\ pc = "others"
    /\ requested < MaxOthers
    /\ expression' = OtherText(requested + 1)
    /\ Evaluated(OtherText(requested + 1))
    /\ requested' = requested + 1
    /\ UNCHANGED <<pc, locales, default_locale, cache, cache_max_size, last, threads,
                   resolverVars>>
EvaluateAgain ==
    /\ pc = "others"
    /\ expression' = Unparsable
    /\ Evaluated(Unparsable)
    /\ pc' = "again"
    /\ UNCHANGED <<locales, default_locale, cache, cache_max_size, last, requested,
                   threads, resolverVars>>

\* No engine yet: I18nModern(...) is about to be called.
NotConstructed ==
    /\ expression = <<>> /\ outcome = "none" /\ evaluated = 0
    /\ parse_cache = <<>> /\ parsed = FALSE
    /\ pc = "new"
    /\ locales = [l \in Locales |-> NoneValue]
    /\ default_locale = ""
    /\ cache = <<>>
    /\ cache_max_size = 0
    /\ last = Call("none", <<>>, "", <<>>, <<>>, FALSE, "", 0, {})
    /\ requested = 0
    /\ threads = NoThreads

\* I18nModern(default, source, cache_max_size = size): the caller holds an
\* engine ("ready") unless the constructor raised ("failed").
Construct ==
    \E default \in Locales, source \in Sources, size \in CtorSizes :
        /\ pc = "new"
        /\ __init__(default, source, size)
        /\ pc' = IF last'.exc = "" THEN "ready" ELSE "failed"
        /\ UNCHANGED <<expression, outcome, evaluated, parse_cache, parsed,
                       resolverVars, requested, threads>>

\* A get on the engine the constructor returned.
GetConstructed == pc = "ready" /\ GetAny

\* The cache-key client: get("msg") with any of its parameter sets.
GetKeyed == \E values \in KeyParamSets :
                get(<<"msg">>, "", values) /\ UNCHANGED <<evalVars, resolverVars, requested, threads>>

\* The eviction client: its next new call, or one of its first Revisit calls
\* again.
GetNext ==
    \E i \in 1..Len(EvictCalls) :
        /\ i = requested + 1 \/ (i <= requested /\ i <= Revisit)
        /\ get(EvictCalls[i][1], "", EvictCalls[i][2])
        /\ requested' = IF i > requested THEN i ELSE requested
        /\ UNCHANGED <<evalVars, resolverVars, threads>>

(***************************************************************************)
(* Specifications.                                                         *)
(***************************************************************************)
\* The engine under any sequence of loads, gets and default-locale changes.
Init == EvalIdle /\ ResolverIdle /\ EngineInit(Locales, Capacities)
Next == GetAny \/ LoadValue \/ LoadFile \/ LoadMany \/ SetDefault
Spec == Init /\ [][Next]_vars

\* evaluate on every text of at most MaxLen tokens.
InitEval == EvalStart(EvalTexts(MaxLen)) /\ ResolverIdle /\ EngineInit({"en"}, {1})
NextEval == Evaluate
SpecEval == InitEval /\ [][NextEval]_vars

\* evaluate on every comparison chain of at most MaxPairs pairs.
InitChain == EvalStart(ChainTexts(MaxPairs)) /\ ResolverIdle /\ EngineInit({"en"}, {1})
NextChain == Evaluate
SpecChain == InitChain /\ [][NextChain]_vars

\* evaluate on every ordering comparison of two literals.
InitOrder == EvalStart(OrderTexts) /\ ResolverIdle /\ EngineInit({"en"}, {1})
NextOrder == Evaluate
SpecOrder == InitOrder /\ [][NextOrder]_vars

\* evaluate on every boolean combination of at most MaxOperands operands.
InitBool == EvalStart(BoolTexts(MaxOperands)) /\ ResolverIdle /\ EngineInit({"en"}, {1})
NextBool == Evaluate
SpecBool == InitBool /\ [][NextBool]_vars

\* _get_translation on every entry, parameter set and inherited default.
InitResolve ==
    /\ expression = <<>> /\ outcome = "none" /\ evaluated = 0 /\ pc = "resolve"
    /\ parse_cache = <<>> /\ parsed = FALSE
    /\ entry \in Entries(MaxItems) \cup DictDefaultEntries
    /\ params \in ResolveParams
    /\ inherited \in InheritedDefaults
    /\ resolved = Returned(<<>>, <<>>)
    /\ EngineInit({"en"}, {1})
NextResolve == ResolveEntry
SpecResolve == InitResolve /\ [][NextResolve]_vars

\* evaluate on a text that does not parse, on up to MaxOthers other texts,
\* and on the first text again.
InitMemo ==
    /\ expression = <<>> /\ outcome = "none" /\ evaluated = 0 /\ pc = "first"
    /\ parse_cache = <<>> /\ parsed = FALSE
    /\ ResolverIdle
    /\ EngineInit({"en"}, {1})
NextMemo == EvaluateFirst \/ EvaluateOther \/ EvaluateAgain
SpecMemo == InitMemo /\ [][NextMemo]_vars

\* Two threads calling get and one reloading the default locale, on one
\* engine, each at most MaxCalls times.
InitThreads == EvalIdle /\ ResolverIdle /\ EngineInitWith({"en"}, ThreadCapacities, DataB)
NextThreads ==
    \/ \E t \in Getters :
          \/ GetEnter(t) \/ GetReturnCached(t) \/ GetResolve(t)
          \/ GetLength(t) \/ GetLimit(t) \/ GetDelete(t) \/ GetInsert(t)
    \/ \E t \in Loaders : LoadEnter(t) \/ LoadList(t) \/ LoadDelete(t)
SpecThreads == InitThreads /\ [][NextThreads]_vars

\* The constructor with every cache_max_size of CtorSizes, then gets on the
\* engine it returned.
InitCtor == NotConstructed /\ ResolverIdle
NextCtor == Construct \/ GetConstructed
SpecCtor == InitCtor /\ [][NextCtor]_vars

\* One engine built with DataA or DataB and no load afterwards: gets of one
\* key with the parameter sets of KeyParamSets.
InitKeys ==
    /\ EvalIdle /\ ResolverIdle
    /\ \E data \in Datas : EngineInitWith({"en"}, KeyCapacities, data)
NextKeys == GetKeyed
SpecKeys == InitKeys /\ [][NextKeys]_vars

\* One engine built with the locale data DataA, filled by its client's gets.
InitEvict == EvalIdle /\ ResolverIdle /\ EngineInitWith({"en"}, EvictCapacities, DataA)
NextEvict == GetNext
SpecEvict == InitEvict /\ [][NextEvict]_vars

(***************************************************************************)
(* Properties.                                                             *)
(***************************************************************************)
\* The locale a get call resolves in.
CallLocale(c) == IF c.locale = "" THEN default_locale ELSE c.locale
NotLoaded(loc) == loc \notin Locales \/ locales[loc].tag = "none"
KeyAbsent(loc, key) == ~NotLoaded(loc) /\ get_deep_value(locales[loc], key).tag = "none"
ResolutionFails(loc, key, values) ==
    /\ ~NotLoaded(loc)
    /\ ~KeyAbsent(loc, key)
    /\ _get_translation(get_deep_value(locales[loc], key), values, NoDefault).exc # ""

\* C1: get never raises and returns a string; when the locale is not loaded,
\* the key is absent from it or the resolution fails, the string is the key
\* itself and the cache is left exactly as it was.
C1_GetFallsBackToKey ==
    [][last'.op = "get" =>
          /\ last'.result \in Seq(STRING)
          /\ (\/ NotLoaded(CallLocale(last'))
              \/ KeyAbsent(CallLocale(last'), last'.key)
              \/ ResolutionFails(CallLocale(last'), last'.key, last'.values))
             => (last'.result = last'.key /\ cache' = cache)]_vars

\* A resolution failed on an engine whose cache holds entries.
C1_Witness ==
    /\ last.op = "get"
    /\ last.exc = "OverflowError"
    /\ last.result = last.key
    /\ Len(cache) > 0

\* C2: evaluate returns a boolean for every text, unparsable ones and
\* integers of any magnitude included.
C2_EvaluateIsTotal == pc = "done" => outcome \in {"true", "false"}

\* C3 as stated: the literals are the lowercase texts true and false.
C3_LowercaseLiterals ==
    pc = "done" =>
        /\ expression = <<"true">> => outcome = "true"
        /\ expression = <<"false">> => outcome = "false"
        /\ expression = <<"true", "and", "false">> => outcome = "false"
        /\ expression = <<"true", "or", "false">> => outcome = "true"

\* C3: the boolean literals are True and False: evaluate gives true for
\* "True" and for "True or False", false for "False" and for "True and
\* False"; the lowercase texts are names, for which evaluate gives false.
C3_PythonLiterals ==
    pc = "done" =>
        /\ expression = <<"True">> => outcome = "true"
        /\ expression = <<"False">> => outcome = "false"
        /\ expression = <<"True", "and", "False">> => outcome = "false"
        /\ expression = <<"True", "or", "False">> => outcome = "true"
        /\ expression \in {<<"true">>, <<"false">>, <<"true", "and", "false">>,
                           <<"true", "or", "false">>} => outcome = "false"

\* "True or False" evaluates to true.
C3_Witness == pc = "done" /\ expression = <<"True", "or", "False">> /\ outcome = "true"

\* The reading of spec section 4.3: the first key whose condition holds
\* decides; its value is resolved with the nearest default; no match gives
\* the default, or "".
EffectiveDefault(e, carried) ==
    IF HasKey(e.items, <<"default">>) THEN DefaultOf(Lookup(e.items, <<"default">>))
    ELSE carried
Matching(e, values) == {i \in 1..Len(e.items) : eval_key(e.items[i].k, values) = "true"}
FirstMatch(e, values) == CHOOSE i \in Matching(e, values) : \A j \in Matching(e, values) : i <= j

RECURSIVE DecisionList(_, _, _)
DecisionList(e, values, carried) ==
    IF e.tag = "str" THEN format_value(e.text, values)
    ELSE IF Matching(e, values) = {}
    THEN IF EffectiveDefault(e, carried).set
         THEN format_value(EffectiveDefault(e, carried).text, values)
         ELSE <<>>
    ELSE DecisionList(e.items[FirstMatch(e, values)].v, values, EffectiveDefault(e, carried))

\* The keys a first-match walk tests: those up to the first match, then the
\* walk of the chosen value.
RECURSIVE DecisionPath(_, _)
DecisionPath(e, values) ==
    IF e.tag = "str" THEN <<>>
    ELSE IF Matching(e, values) = {} THEN [i \in 1..Len(e.items) |-> e.items[i].k]
    ELSE [i \in 1..FirstMatch(e, values) |-> e.items[i].k]
         \o DecisionPath(e.items[FirstMatch(e, values)].v, values)

\* C4: a conditional entry is a first-match decision list: the branches are
\* tested in order up to the first whose condition holds, the result is the
\* resolution of that branch's value, and nothing after it is tested, also
\* when the chosen value matches nothing.
C4_FirstMatch ==
    (pc = "resolved" /\ entry.tag = "dict" /\ Matching(entry, params) # {}) =>
        /\ resolved.exc = ""
        /\ resolved.tested = DecisionPath(entry, params)
        /\ resolved.result =
               DecisionList(entry.items[FirstMatch(entry, params)].v, params,
                            EffectiveDefault(entry, inherited))

\* The first branch holds and its value matches nothing; the second branch
\* would hold too and is never tested.
C4_Witness ==
    /\ pc = "resolved"
    /\ entry = Dict(<<Item(<<"[n]", ">", "1">>, Dict(<<>>)), Item(<<"True">>, Leaf(<<"A">>))>>)
    /\ params = <<<<"n", "2">>>>
    /\ inherited = NoDefault
    /\ resolved.result = <<>>
    /\ resolved.tested = <<<<"[n]", ">", "1">>>>

\* C5: the effective default of a conditional entry is its own default if it
\* has one, else the one carried down; with no matching branch the result
\* is the formatted effective default, or "" when there is none.
C5_NearestDefault ==
    pc = "resolved" =>
        /\ resolved.result = DecisionList(entry, params, inherited)
        /\ (entry.tag = "dict" /\ Matching(entry, params) = {}) =>
               resolved.result =
                   IF HasKey(entry.items, <<"default">>)
                   THEN format_value(StrOf(Lookup(entry.items, <<"default">>)), params)
                   ELSE IF inherited.set THEN format_value(inherited.text, params)
                   ELSE <<>>

\* The inner entry's own default wins over the outer one and the carried one.
C5_Witness ==
    /\ pc = "resolved"
    /\ entry = Dict(<<Item(<<"True">>, Dict(<<Item(<<"default">>, Leaf(<<"n=", "[n]">>))>>)),
                      Item(<<"default">>, Leaf(<<"A">>))>>)
    /\ params = <<<<"n", "1">>>>
    /\ inherited.set
    /\ resolved.result = <<"n=", "1">>

\* C6: a get that misses and resolves removes, when the cache holds at least
\* cache_max_size entries, exactly the oldest floor(cache_max_size / 4)
\* entries (one entry for sizes up to 4), keeps the others as they are and
\* appends the new entry; below capacity nothing is removed; a get for a key
\* that is not stored recomputes.
C6_BulkEviction ==
    [][last'.op = "get" =>
          LET ck == CacheKey(last'.key, CallLocale(last'), last'.values)
              n == Len(cache)
              k == IF n >= cache_max_size
                   THEN (IF cache_max_size > 4 THEN cache_max_size \div 4 ELSE 1)
                   ELSE 0
          IN  /\ ~InCache(cache, ck) => ~last'.hit
              /\ IF last'.hit \/ last'.exc # "" THEN cache' = cache
                 ELSE /\ Len(cache') = n - k + 1
                      /\ \A i \in 1..(n - k) : cache'[i] = cache[i + k]
                      /\ cache'[n - k + 1] = [key |-> ck, val |-> last'.result]
                      /\ last'.dropped = k]_vars

\* At capacity 8 the client's first call was evicted with the second one
\* and is resolved again.
C6_Witness ==
    /\ cache_max_size = 8
    /\ requested >= 9
    /\ last.op = "get"
    /\ last.key = EvictCalls[1][1]
    /\ last.values = EvictCalls[1][2]
    /\ ~last.hit
    /\ last.exc = ""

\* The positions of the entries whose locale is not one of ls.
KeptIndexes(c, ls) == {i \in 1..Len(c) : c[i].key.locale \notin ls}

\* C7: a load for a set of locales removes the cache entries of those
\* locales and no other: the entries of the other locales stay, with their
\* values and in their order, and a get for a stored key is served from the
\* cache.
C7_LocaleScopedInvalidation ==
    [][/\ last'.loaded # {} =>
             /\ Len(cache') = Cardinality(KeptIndexes(cache, last'.loaded))
             /\ \A i \in KeptIndexes(cache, last'.loaded) :
                    cache'[Cardinality({j \in KeptIndexes(cache, last'.loaded) : j <= i})]
                        = cache[i]
             /\ last'.dropped = Len(cache) - Len(cache')
       /\ (last'.op = "get"
           /\ InCache(cache, CacheKey(last'.key, CallLocale(last'), last'.values))) =>
             /\ last'.hit
             /\ last'.result =
                    Cached(cache, CacheKey(last'.key, CallLocale(last'), last'.values))
             /\ cache' = cache]_vars

\* A load removed the entries of its locale and left another locale's.
C7_Witness == last.loaded # {} /\ last.dropped > 0 /\ Len(cache) > 0

\* What get returns when nothing is cached: the resolution from the store as
\* it is now, or the key.
Uncached(loc, key, values) ==
    IF Resolve(locales, loc, key, values).exc # "" THEN key
    ELSE Resolve(locales, loc, key, values).result

\* C8: what get returns, and every stored cache entry, is the resolution
\* from the locale's tree as it is now, for parameters with the cache key of
\* the call; no value from before the latest load of the locale is served.
C8_NoStaleResult ==
    /\ last.op = "get" =>
           \E p \in ParamSets :
               /\ ValuesTuple(p) = ValuesTuple(last.values)
               /\ last.result = Uncached(CallLocale(last), last.key, p)
    /\ \A i \in 1..Len(cache) :
           \E p \in ParamSets :
               /\ ValuesTuple(p) = cache[i].key.values
               /\ Resolve(locales, cache[i].key.locale, cache[i].key.key, p).exc = ""
               /\ Resolve(locales, cache[i].key.locale, cache[i].key.key, p).result
                      = cache[i].val

\* msg was a conditional entry of DataA and is DataB's text now; get gives
\* the new text.
C8_Witness ==
    /\ last.op = "get"
    /\ last.key = <<"msg">>
    /\ last.values = <<<<"n", "1">>>>
    /\ ~NotLoaded(CallLocale(last))
    /\ ~KeyAbsent(CallLocale(last), <<"menu", "open">>)
    /\ last.result = <<"item ", "1">>

\* A text a == b or a != b between a str literal and a numeric literal.
MixedEquality(t) ==
    /\ Len(t) = 3
    /\ t[2] \in {"==", "!="}
    /\ t[1] \in ConstTokens /\ t[3] \in ConstTokens
    /\ IsStrToken(t[1]) # IsStrToken(t[3])

\* C9 as stated: == and != between a Text and a numeric operand both make
\* evaluate return false.
C9_MixedEqualityFailsClosed ==
    (pc = "done" /\ MixedEquality(expression)) => outcome = "false"

\* C9: between a Text and a numeric operand == is false and != is true;
\* neither is an evaluation failure.
C9_MixedEqualityIsInequality ==
    (pc = "done" /\ MixedEquality(expression)) =>
        outcome = IF expression[2] = "==" THEN "false" ELSE "true"

\* 'a' != 1 evaluates to true.
C9_Witness == pc = "done" /\ expression = <<"'a'", "!=", "1">> /\ outcome = "true"

\* Pair i of a chain of single-token operands: the result of comparing its
\* two operands, "ValueError" when one of them is not a literal.
PairCount(t) == (Len(t) - 1) \div 2
PairResult(t, i) ==
    IF t[2 * i - 1] \in ConstTokens /\ t[2 * i + 1] \in ConstTokens
    THEN _apply_comparison(CmpOp(t[2 * i]), ConstValue(t[2 * i - 1]), ConstValue(t[2 * i + 1]))
    ELSE "ValueError"

\* C10: a chain is the conjunction of its adjacent pairs, taken left to
\* right: it is false at the first false pair, whose right operand is the
\* last one read, and true exactly when every pair is true.
C10_ChainedComparison ==
    pc = "done" =>
        /\ \A i \in 1..PairCount(expression) :
               (/\ PairResult(expression, i) = "false"
                /\ \A j \in 1..(i - 1) : PairResult(expression, j) = "true")
               => (outcome = "false" /\ evaluated = i + 1)
        /\ outcome = "true" <=>
               \A i \in 1..PairCount(expression) : PairResult(expression, i) = "true"

\* 2 < 1 < x: false at the first pair, x is never read.
C10_Witness ==
    /\ pc = "done"
    /\ expression = <<"2", "<", "1", "<", "x">>
    /\ outcome = "false"
    /\ evaluated = 2

\* The two operands of an ordering text and its operator.
OpAt(t) == CHOOSE i \in 1..Len(t) : t[i] \in OrderOps
LiteralOf(ts) == IF Len(ts) = 1 THEN ConstValue(ts[1]) ELSE StrV(Flatten([i \in 1..Len(ts) |-> ConstValue(ts[i]).s]))
LeftOf(t) == LiteralOf(SubSeq(t, 1, OpAt(t) - 1))
RightOf(t) == LiteralOf(SubSeq(t, OpAt(t) + 1, Len(t)))

\* a before b in the lexicographic order of texts.
LexLess(a, b) ==
    \E k \in 0..Len(a) :
        /\ k <= Len(b)
        /\ \A i \in 1..k : a[i] = b[i]
        /\ \/ k = Len(a) /\ k < Len(b)
           \/ k < Len(a) /\ k < Len(b) /\ Ord(a[k + 1]) < Ord(b[k + 1])
\* a below b as numbers; a number is h/2 * 10^e with e = 0 but for the
\* positive integer of 310 digits.
NumLess(a, b) == IF a.e = b.e THEN a.h < b.h ELSE a.e < b.e
Below(a, b) == IF a.cat = "str" THEN LexLess(a.s, b.s) ELSE NumLess(a, b)
Ordered(op, a, b) ==
    IF (a.cat = "str") # (b.cat = "str") THEN FALSE
    ELSE CASE op = "<" -> Below(a, b)
           [] op = "<=" -> ~Below(b, a)
           [] op = ">" -> Below(b, a)
           [] op = ">=" -> ~Below(a, b)

\* C11: an ordering comparison of two texts is lexicographic, of two
\* numeric-like operands numeric (True is 1, False is 0), and between a text
\* and a numeric-like operand evaluate returns false.
C11_OrderingWithinCategory ==
    pc = "done" =>
        outcome = BoolOut(Ordered(expression[OpAt(expression)], LeftOf(expression),
                                  RightOf(expression)))

\* The operands of the outermost "and" or "or" of a text, and what evaluate
\* gives for each on its own.
TopNode(t) == parse(t)
OperandAlone(v) == EvaluateTree(v)
AllTrue(node) == \A i \in 1..Len(node.values) : OperandAlone(node.values[i]) = "true"
SomeTrue(node) == \E i \in 1..Len(node.values) : OperandAlone(node.values[i]) = "true"

\* C12 as stated: an "and" is true only if every operand evaluates true, an
\* "or" is true if any operand evaluates true.
C12_Combinators ==
    (pc = "done" /\ TopNode(expression).type = "BoolOp") =>
        /\ TopNode(expression).op = "And" =>
               (outcome = "true" <=> AllTrue(TopNode(expression)))
        /\ TopNode(expression).op = "Or" =>
               (outcome = "true" <=> SomeTrue(TopNode(expression)))

\* An operand whose own evaluation raises, and the first of them.
Fails(v) == _evaluate_node(v) \notin {"true", "false"}
FirstFailing(node) ==
    node.values[CHOOSE i \in 1..Len(node.values) :
                    /\ Fails(node.values[i])
                    /\ \A j \in 1..(i - 1) : ~Fails(node.values[j])]

\* C12: every operand is evaluated; when none fails, an "and" is true
\* exactly if every operand is true and an "or" exactly if some operand is
\* true; when an operand fails, the text has the outcome of the first
\* failing operand on its own, also for an "or" with a true operand.
C12_EagerCombinators ==
    (pc = "done" /\ TopNode(expression).type = "BoolOp") =>
        IF \E i \in 1..Len(TopNode(expression).values) : Fails(TopNode(expression).values[i])
        THEN outcome = OperandAlone(FirstFailing(TopNode(expression)))
        ELSE /\ TopNode(expression).op = "And" =>
                    (outcome = "true" <=> AllTrue(TopNode(expression)))
             /\ TopNode(expression).op = "Or" =>
                    (outcome = "true" <=> SomeTrue(TopNode(expression)))
             /\ outcome \in {"true", "false"}

\* True or 'a' < 1: the second operand fails and the text is false.
C12_Witness ==
    /\ pc = "done"
    /\ expression = <<"True", "or", "'a'", "<", "1">>
    /\ outcome = "false"

\* Two parameter tuples with the same items in different orders.
Permuted(a, b) ==
    /\ a # b
    /\ Len(a) = Len(b)
    /\ {a[i] : i \in 1..Len(a)} = {b[i] : i \in 1..Len(b)}
\* The names of a parameter tuple, in its order.
NamesOf(items) == [j \in 1..Len(items) |-> items[j][1]]
\* The cache holds an entry for the call's key and locale whose parameters
\* are in the order of the parameters ps.
OrderStored(c, call, loc, ps) ==
    \E i \in 1..Len(c) :
        /\ c[i].key.key = call.key
        /\ c[i].key.locale = loc
        /\ NamesOf(c[i].key.values) = NamesOf(ps)

\* C13: after a get, a get for the same key and locale with the same
\* parameters in another insertion order, whose own order is not stored, is
\* a miss: it resolves and inserts its own entry, with the parameters in the
\* caller's order, beside the entry of the first call.
C13_ParameterOrderInKey ==
    [][(/\ last.op = "get" /\ last.exc = ""
        /\ last'.op = "get"
        /\ last'.key = last.key /\ last'.locale = last.locale
        /\ Permuted(last.values, last'.values)
        /\ ~OrderStored(cache, last', CallLocale(last'), last'.values)) =>
          /\ ~last'.hit
          /\ last'.exc = ""
          /\ Len(cache') = Len(cache) - last'.dropped + 1
          /\ cache'[Len(cache')].key.key = last'.key
          /\ NamesOf(cache'[Len(cache')].key.values) = NamesOf(last'.values)
          /\ last'.dropped = 0 =>
                 OrderStored(SubSeq(cache', 1, Len(cache)), last', CallLocale(last'),
                             last.values)]_vars

\* The cache holds both orders of one content, the second put by a miss.
C13_Witness ==
    /\ last.op = "get"
    /\ ~last.hit
    /\ Len(last.values) = 2
    /\ \E i \in 1..Len(cache) : Permuted(cache[i].key.values, cache[Len(cache)].key.values)

\* C18: a get served from the cache returns the string that the resolution
\* from the store gives for the call's own parameters.
C18_CacheTransparency ==
    [][(last'.op = "get" /\ last'.hit) =>
          last'.result = Uncached(CallLocale(last'), last'.key, last'.values)]_vars

\* C14: a constructor call with cache_max_size <= 0 raises ValueError, with
\* no locale data loaded, and gives the caller no engine: every operation is
\* on an engine whose cache_max_size is positive.
C14_NonPositiveCapacityRejected ==
    /\ (pc \in {"ready", "failed"} /\ cache_max_size <= 0) =>
           /\ pc = "failed"
           /\ last.op = "init"
           /\ last.exc = "ValueError"
           /\ \A l \in Locales : locales[l] = NoneValue
    /\ pc = "ready" => cache_max_size >= 1
    /\ last.op = "get" => cache_max_size >= 1

\* I18nModern(..., cache_max_size = 0) raised ValueError with no locale loaded.
C14_Witness ==
    /\ pc = "failed"
    /\ cache_max_size = 0
    /\ last.exc = "ValueError"
    /\ locales = [l \in Locales |-> NoneValue]

\* C15 as stated: the second evaluate of a text that does not parse returns
\* false without running the parser, whatever was evaluated in between.
C15_NeverParsedAgain == pc = "again" => (outcome = "false" /\ ~parsed)

\* C15: the second evaluate of a text that does not parse returns false;
\* it runs the parser again exactly when 512 or more distinct other texts
\* were evaluated since the first one, which is when the cache of 512
\* entries has dropped the text.
C15_MemoizedWhileStored ==
    pc = "again" => (outcome = "false" /\ (parsed <=> requested >= maxsize))

\* 511 other texts later "1 +" is still stored: false, and no parse.
C15_Witness ==
    /\ pc = "again"
    /\ requested = 511
    /\ outcome = "false"
    /\ ~parsed
    /\ Len(parse_cache) = 512

\* C17: an engine with cache_max_size = N >= 1, used by one caller, never
\* stores more than N cache entries, whatever gets and loads it has served.
C17_CapacityInvariant == Len(cache) <= cache_max_size

\* A get on a full cache has evicted and inserted: the cache is full again.
C17_Witness ==
    /\ last.op = "get"
    /\ ~last.hit
    /\ last.dropped > 0
    /\ Len(cache) = cache_max_size

\* The files of the batch of a load_many call that fail to load.
FailedFiles(call) == {i \in 1..Len(call.key) : FileError(call.key[i][1]) # ""}

\* C19: a load_many whose batch has a file that fails to load raises, and
\* leaves the locale store and the translation cache as they were, also for
\* the files of the batch that loaded.
C19_LoadManyAllOrNothing ==
    [][(last'.op = "load_many" /\ FailedFiles(last') # {})
        => (last'.exc # "" /\ last'.loaded = {} /\ locales' = locales /\ cache' = cache)]_vars

\* load_many([("b.json", "en"), ("missing.json", "fr")]) raised on an engine
\* whose "en" holds DataA and whose cache is not empty: b.json loaded, and
\* "en" is still DataA.
C19_Witness ==
    /\ last.op = "load_many"
    /\ last.key = <<<<"b.json", "en">>, <<"missing.json", "fr">>>>
    /\ last.exc = "FileNotFoundError"
    /\ locales["en"] = DataA
    /\ cache # <<>>

\* The results of a batch in the completion order of its tasks.
Completed(files, order) == [i \in 1..Len(order) |-> files[order[i]]]

\* C20: the store after a load_many that succeeded is the store of every
\* completion order of its tasks.
C20_CompletionOrderIndependent ==
    [][(last'.op = "load_many" /\ last'.exc = "")
        => \A order \in Orders :
               MergeResults(locales, cache, default_locale,
                            Completed(last'.key, order)).store = locales']_vars

\* A get of the thread returned the key itself although the key resolves.
FellBack(th) ==
    /\ th.pc = "idle" /\ th.calls > 0
    /\ th.ret = th.key
    /\ Resolve(locales, th.locale, th.key, th.values).exc = ""

\* C16: with threads calling get and a load on one engine, no get for a
\* key present in the store returns the key text, no load raises because
\* an entry it deletes is gone, and the cache never holds more than
\* cache_max_size entries.
C16_AtomicCacheOperations ==
    /\ \A t \in Getters : ~FellBack(threads[t])
    /\ \A t \in Loaders : threads[t].exc = ""
    /\ Len(cache) <= cache_max_size

====
